---- MODULE Spec2Model ----
(***************************************************************************)
(* A model of the ChatGPT class (src/unnamed/part_000): the persisted      *)
(* request configuration, the conversation history, the running summary    *)
(* and the backend calls in flight, with one action per public operation   *)
(* and one per backend response.  JavaScript runs each handler to its      *)
(* first await without interleaving, so a handler up to the backend call   *)
(* is one action and the continuation after the response is another.       *)
(*                                                                         *)
(* Text.  A string is a sequence of symbols.  A symbol is either a single  *)
(* character ("A", "I", ":", " ", "\n", "s", ",") or a named run of        *)
(* characters (a template of the source, or a block of user text of a      *)
(* given size).  SymLen gives a symbol's length in characters and SymTok   *)
(* the number of tokens the gpt-3-encoder library is taken to count for    *)
(* it; the encoder is taken to be additive over symbols.                   *)
(***************************************************************************)
EXTENDS Integers, Sequences, FiniteSets, Bags, TLC

\* ------------------------------------------------------------------ bounds
\* Number of operations (chat, query, summarize, configure) the user starts.
MaxOps == 3

\* --------------------------------------------------------------- constants
summarize_token_cutoff == 2048
summarize_token_target == 512
MicroMaxTokens == 50
HistorySanityCeiling == 1000000
DefaultMaxTokens == 1024

\* -------------------------------------------------------------------- text
Whitespace == {" ", "\n"}

SymLen(s) ==
    CASE s = "Persona"   -> 28     \* "You are a helpful assistant."
      [] s = "TplFresh"  -> 88     \* "Please summarize the following conversation ...:\n\n"
      [] s = "TplMergeA" -> 156    \* "Please update the following summary ...Existing summary:\n"
      [] s = "TplMergeB" -> 16     \* "\n\nNew messages:\n"
      [] s = "TplMicroQ" -> 268    \* "Please summarize this question and answer ...\n\nQ: "
      [] s = "TplMicroA" -> 5      \* "\n\nA: "
      [] s = "Warn"      -> 54     \* "\n[WARNING: stopped generating output because '...']"
      [] s = "system"    -> 6
      [] s = "user"      -> 4
      [] s = "assistant" -> 9
      [] s = "Human"     -> 5
      [] s = "q499"      -> 1996
      [] s = "q1199"     -> 4796
      [] s = "q4081"     -> 16324
      [] s = "qhuge"     -> 20000
      [] OTHER           -> 1

SymTok(s) ==
    CASE s = "Persona"   -> 6
      [] s = "TplFresh"  -> 18
      [] s = "TplMergeA" -> 30
      [] s = "TplMergeB" -> 5
      [] s = "TplMicroQ" -> 55
      [] s = "TplMicroA" -> 3
      [] s = "Warn"      -> 14
      [] s = "q499"      -> 499
      [] s = "q1199"     -> 1199
      [] s = "q4081"     -> 4081
      [] s = "qhuge"     -> 5000
      [] OTHER           -> 1

RECURSIVE StrLength(_)
StrLength(str) ==
    IF str = <<>> THEN 0 ELSE SymLen(Head(str)) + StrLength(Tail(str))

\* encode(str).length of the gpt-3-encoder library
RECURSIVE encode(_)
encode(str) ==
    IF str = <<>> THEN 0 ELSE SymTok(Head(str)) + encode(Tail(str))

RECURSIVE TrimStart(_)
TrimStart(str) ==
    IF str # <<>> /\ Head(str) \in Whitespace THEN TrimStart(Tail(str)) ELSE str

RECURSIVE TrimEnd(_)
TrimEnd(str) ==
    IF str # <<>> /\ str[Len(str)] \in Whitespace
    THEN TrimEnd(SubSeq(str, 1, Len(str) - 1))
    ELSE str

\* String.prototype.trim
Trim(str) == TrimEnd(TrimStart(str))

\* String.prototype.startsWith
StartsWith(str, prefix) ==
    /\ Len(str) >= Len(prefix)
    /\ SubSeq(str, 1, Len(prefix)) = prefix

\* String.prototype.slice(n), for texts whose first n symbols are characters
Slice(str, n) == IF n >= Len(str) THEN <<>> ELSE SubSeq(str, n + 1, Len(str))

\* Array.prototype.join
RECURSIVE Join(_, _)
Join(parts, sep) ==
    IF parts = <<>> THEN <<>>
    ELSE IF Len(parts) = 1 THEN parts[1]
    ELSE parts[1] \o sep \o Join(Tail(parts), sep)

\* Array.prototype.reverse
Reverse(seq) == [i \in 1..Len(seq) |-> seq[Len(seq) + 1 - i]]

\* ------------------------------------------------------------------ models
ModelNames == <<"gpt-4", "gpt-3.5-turbo", "text-davinci-003", "davinci", "curie">>

ChatParams == {"frequency_penalty", "presence_penalty", "max_tokens", "stop", "stream",
               "n", "top_p", "temperature", "logit_bias", "user"}

CompletionParams == {"suffix", "frequency_penalty", "presence_penalty", "max_tokens",
                     "stop", "stream", "n", "top_p", "temperature", "logit_bias",
                     "logprobs", "echo", "best_of", "user"}

\* A field a model does not declare is "undefined".
models ==
    [m \in {ModelNames[i] : i \in 1..Len(ModelNames)} |->
        CASE m = "gpt-4" ->
               [token_limit |-> 4096, usage |-> "undefined", hasParams |-> TRUE,
                params |-> ChatParams, method |-> "createChatCompletion"]
          [] m = "gpt-3.5-turbo" ->
               [token_limit |-> 4096, usage |-> "chat", hasParams |-> TRUE,
                params |-> ChatParams, method |-> "createChatCompletion"]
          [] m = "text-davinci-003" ->
               [token_limit |-> 4096, usage |-> "query", hasParams |-> TRUE,
                params |-> CompletionParams, method |-> "createCompletion"]
          [] m = "davinci" ->
               [token_limit |-> 2048, usage |-> "fine-tune", hasParams |-> FALSE,
                params |-> {}, method |-> "undefined"]
          [] m = "curie" ->
               [token_limit |-> 2048, usage |-> "fine-tune", hasParams |-> FALSE,
                params |-> {}, method |-> "undefined"]]

\* Math.max(...Object.values(this.models).map(m => m.token_limit))
MaxTokenLimit ==
    CHOOSE l \in {models[m].token_limit : m \in DOMAIN models} :
        \A m \in DOMAIN models : models[m].token_limit <= l

names == [user |-> <<"Human">>, assistant |-> <<"A", "I">>]

\* ----------------------------------------------------------- configuration
\* A configuration value is <<v>>; JavaScript's null is <<>>.  An object is
\* a function from its own keys to values.
Null == <<>>
Val(v) == <<v>>
\* JavaScript's undefined, as the value of a key an object holds
Undefined == <<"undefined", "undefined">>
EmptyObject == [k \in {} |-> Null]

\* The initial value of #conf; fractions are kept in tenths.
InitialConf ==
    [k \in {"max_tokens", "top_p", "temperature", "frequency_penalty",
            "presence_penalty", "stream", "n", "logit_bias", "logprobs", "echo",
            "best_of", "suffix", "stop"} |->
        CASE k = "max_tokens"        -> Val(DefaultMaxTokens)
          [] k = "top_p"             -> Val(10)
          [] k = "temperature"       -> Val(10)
          [] k = "frequency_penalty" -> Val(1)
          [] k = "presence_penalty"  -> Val(6)
          [] k = "stream"            -> Val(FALSE)
          [] k = "n"                 -> Val(1)
          [] k = "echo"              -> Val(FALSE)
          [] k = "best_of"           -> Val(1)
          [] k = "stop"              -> Val("names")
          [] OTHER                   -> Null]

\* Object.assign(target, source)
ObjectAssign(target, source) ==
    [k \in DOMAIN target \cup DOMAIN source |->
        IF k \in DOMAIN source THEN source[k] ELSE target[k]]

\* delete obj[key]
Delete(obj, key) == [k \in DOMAIN obj \ {key} |-> obj[k]]

\* truthiness of obj[key] for a numeric or null field
Truthy(obj, key) == key \in DOMAIN obj /\ obj[key] # Null /\ obj[key] # Val(0)

\* An optional argument: undefined, or an object.
NoTempConf == [defined |-> FALSE, obj |-> EmptyObject]
TempConf(obj) == [defined |-> TRUE, obj |-> obj]

\* conf.max_tokens > lim, where lim is Math.max over the field max of every
\* model: no model declares max, so lim is NaN and the comparison is false.
ExceedsLim(v) == FALSE

\* JSON.parse(JSON.stringify(obj)): keys holding undefined are dropped
JSONCopy(obj) == [k \in {j \in DOMAIN obj : obj[j] # Undefined} |-> obj[k]]

\* configure(conf): the new value of #conf and the returned previous conf
configure(c, in) ==
    LET oldConf == JSONCopy(c)
        handled == Truthy(in, "max_tokens")
        c1 == IF handled /\ ~ExceedsLim(in["max_tokens"])
              THEN ObjectAssign(c, [k \in {"max_tokens"} |-> in["max_tokens"]])
              ELSE c
        rest == IF handled THEN Delete(in, "max_tokens") ELSE in
    IN [conf |-> ObjectAssign(c1, rest), oldConf |-> oldConf]

\* The restore at the end of createBody: Object.assign(this.#conf, oldConf)
RestoreConf(c, oldConf) == ObjectAssign(c, oldConf)

\* #countTokens(str), for a string
countTokens(str) ==
    LET tokens == encode(str)
    IN IF tokens = 0 \/ tokens > MaxTokenLimit
       THEN StrLength(str) \div 4
       ELSE tokens

\* #getModelName(tempConf, usage); "undefined" when no model has the usage
getModelName(tempConf, usage) ==
    IF /\ tempConf.defined
       /\ "model" \in DOMAIN tempConf.obj
       /\ tempConf.obj["model"] \notin {Null, Undefined}
       /\ tempConf.obj["model"][1] \in DOMAIN models
    THEN tempConf.obj["model"][1]
    ELSE IF \E i \in 1..Len(ModelNames) : models[ModelNames[i]].usage = usage
         THEN ModelNames[CHOOSE i \in 1..Len(ModelNames) :
                    /\ models[ModelNames[i]].usage = usage
                    /\ \A j \in 1..(i - 1) : models[ModelNames[j]].usage # usage]
         ELSE "undefined"

\* The body createBody fills from the configuration c for a model
BodyOf(model, c) ==
    [k \in {"model"} \cup {p \in models[model].params : p \in DOMAIN c /\ c[p] # Null} |->
        IF k = "model" THEN Val(model) ELSE c[k]]

\* createBody after its checks of the model name, with cfg what configure
\* returned (overridden: a tempConf was passed)
CreateBodyWith(model, overridden, cfg) ==
    IF ~models[model].hasParams
    THEN [ok |-> FALSE, body |-> EmptyObject, conf |-> cfg.conf]
    ELSE [ok |-> TRUE,
          body |-> BodyOf(model, cfg.conf),
          conf |-> IF overridden THEN RestoreConf(cfg.conf, cfg.oldConf) ELSE cfg.conf]

\* createBody(model, tempConf) on the configuration c: whether it returns, the
\* body it returns and the value it leaves in #conf
createBody(model, tempConf, c) ==
    IF model \notin DOMAIN models
    THEN [ok |-> FALSE, body |-> EmptyObject, conf |-> c]
    ELSE CreateBodyWith(model, tempConf.defined,
                        IF tempConf.defined
                        THEN configure(c, tempConf.obj)
                        ELSE [conf |-> c, oldConf |-> c])

\* #formatMessage(format, role, content)
formatMessage(format, role, content) ==
    IF format = "chat"
    THEN [role |-> role, content |-> content]
    ELSE <<" ">> \o names[role] \o <<":", " ">> \o content \o <<"\n">>

\* Mutant: every turn is taken, summarized or not
getUnsummorizedHistory_All(hist) == [i \in 1..Len(hist) |-> Len(hist) + 1 - i]

\* #getUnsummorizedHistory(): the turns (by position) with summarized = false,
\* most recent first
RECURSIVE UnsummorizedFrom(_, _)
UnsummorizedFrom(hist, i) ==
    IF i < 1 THEN <<>>
    ELSE (IF hist[i].summarized = FALSE THEN <<i>> ELSE <<>>)
         \o UnsummorizedFrom(hist, i - 1)

getUnsummorizedHistory(hist) == UnsummorizedFrom(hist, Len(hist))

\* The loop of countHistoryTokens: it runs over this.history
RECURSIVE TotalTokens(_)
TotalTokens(hist) ==
    IF hist = <<>> THEN 0
    ELSE Head(hist).input_tokens + Head(hist).output_tokens + TotalTokens(Tail(hist))

\* countHistoryTokens(history), with this.history = hist: it throws or
\* returns total
countHistoryTokens(turns, hist) ==
    LET total == TotalTokens(hist)
    IN [ok |-> ~(total > HistorySanityCeiling \/ (Len(turns) # 0 /\ total = 0)),
        total |-> total]

\* #formatHistory(format, history), history given as positions in hist
RECURSIVE FormatPairs(_, _, _)
FormatPairs(format, turns, hist) ==
    IF turns = <<>> THEN <<>>
    ELSE << formatMessage(format, "user", hist[Head(turns)].input),
            formatMessage(format, "assistant", hist[Head(turns)].output) >>
         \o FormatPairs(format, Tail(turns), hist)

formatHistory(format, turns, hist) == Reverse(FormatPairs(format, turns, hist))

\* models[..].extractContent(body), or the TypeError of reading a field the
\* body does not have
RECURSIVE RenderMessages(_)
RenderMessages(msgs) ==
    IF msgs = <<>> THEN <<>>
    ELSE << <<Head(msgs).role, ":", " ">> \o Head(msgs).content \o <<"\n">> >>
         \o RenderMessages(Tail(msgs))

extractContent(body) ==
    IF models[body["model"][1]].method = "createChatCompletion"
    THEN IF "messages" \in DOMAIN body
         THEN [ok |-> TRUE, text |-> Join(RenderMessages(body["messages"]), <<"\n">>)]
         ELSE [ok |-> FALSE, text |-> <<>>]
    ELSE IF "prompt" \in DOMAIN body
         THEN [ok |-> TRUE, text |-> body["prompt"]]
         ELSE [ok |-> FALSE, text |-> <<>>]

\* Mutants of the clamp: left out, and clamping to the whole ceiling
ClampMaxTokens_Skipped(body, tokens, limit) == body

ClampMaxTokens_ToCeiling(body, tokens, limit) ==
    IF "max_tokens" \in DOMAIN body /\ tokens + body["max_tokens"][1] > limit
    THEN [body EXCEPT !["max_tokens"] = Val(limit)]
    ELSE body

\* The clamp of #adjustMaxExpectedResponseTokens, given the prompt's tokens
ClampMaxTokens(body, tokens, limit) ==
    IF "max_tokens" \in DOMAIN body /\ tokens + body["max_tokens"][1] > limit
    THEN [body EXCEPT !["max_tokens"] = Val(limit - tokens)]
    ELSE body

\* Mutant of the response part: the warning is never appended
ParseResponse_NoWarning(resp) ==
    [ok |-> Trim(resp.text) # <<>>, output |-> Trim(resp.text)]

\* Mutant of the test: no prompt is rejected
TooBig_Never(tokens, limit) == FALSE

\* The test of #adjustMaxExpectedResponseTokens that rejects the prompt
TooBig(tokens, limit) == tokens > limit

\* #adjustMaxExpectedResponseTokens once the content is extracted and counted
AdjustCounted(body, limit, tokens) ==
    IF TooBig(tokens, limit)
    THEN [ok |-> FALSE, body |-> body]
    ELSE [ok |-> TRUE, body |-> ClampMaxTokens(body, tokens, limit)]

AdjustWith(body, limit, content) ==
    IF ~content.ok
    THEN [ok |-> FALSE, body |-> body]
    ELSE AdjustCounted(body, limit, countTokens(content.text))

\* #adjustMaxExpectedResponseTokens(body): it throws, or leaves body adjusted
adjustMaxExpectedResponseTokens(body) ==
    AdjustWith(body, models[body["model"][1]].token_limit, extractContent(body))

\* The response part of #makeApiCall: the text it returns, or the error of an
\* empty extracted text
ParseResponse(resp) ==
    LET output == Trim(resp.text)
    IN IF output = <<>>
       THEN [ok |-> FALSE, output |-> <<>>]
       ELSE [ok |-> TRUE,
             output |-> IF resp.finish_reason # "stop" THEN output \o <<"Warn">> ELSE output]

VARIABLES
    conf,       \* this.#conf
    history,    \* this.history
    summary,    \* this.summary
    inflight,   \* backend calls awaiting their response, with their continuation
    ops,        \* number of operations started so far
    ev,         \* the step just taken: operation, outcome, requests handed to the backend
    delivered,  \* the backend's response the step just taken received, if any
    covered     \* the turns (positions) this.summary was made from

vars == <<conf, history, summary, inflight, ops, ev, delivered, covered>>

\* ------------------------------------------------------------------ inputs
\* The texts the user types in chat: the empty string, and blocks of 1199,
\* 4081 and 5000 tokens.
UserInputs == {<<>>, <<"q1199">>, <<"q4081">>, <<"qhuge">>}

QueryInputs == {<<>>, <<"q499">>}

\* The call-scoped overrides the user passes to chat
ChatOverrides ==
    { TempConf(EmptyObject),
      TempConf([k \in {"model", "user"} |->
                    IF k = "model" THEN Val("gpt-4") ELSE Val("bob")]),
      TempConf([k \in {"max_tokens"} |-> Val(4000)]),
      TempConf([k \in {"model", "max_tokens"} |->
                    IF k = "model" THEN Val("davinci") ELSE Val(MicroMaxTokens)]) }

QueryOverrides == { NoTempConf, TempConf([k \in {"user"} |-> Val("bob")]) }

\* The calls of chat the user makes: every input without override, and the
\* 1199-token input with every override
ChatCalls ==
    { <<input, TempConf(EmptyObject)>> : input \in UserInputs }
    \cup { <<<<"q1199">>, tempConf>> : tempConf \in ChatOverrides }

\* The calls of query the user makes
QueryCalls ==
    { <<input, NoTempConf>> : input \in QueryInputs }
    \cup { <<<<"q499">>, tempConf>> : tempConf \in QueryOverrides }

ConfigureInputs == { [k \in {"max_tokens"} |-> Val(2000)] }

\* What the backend answers to a call of each kind: a response with a text
\* and a finish reason, or an error.
Response(text, reason) == [error |-> FALSE, text |-> text, finish_reason |-> reason]
BackendError == [error |-> TRUE, text |-> <<>>, finish_reason |-> "stop"]
\* No response: the step was started by the user
NoResponse == [error |-> FALSE, text |-> <<>>, finish_reason |-> "none"]

Responses(kind) ==
    {BackendError} \cup
    CASE kind = "chat" ->
           { Response(<<"s">>, "stop"), Response(<<" ">>, "stop") }
      [] kind = "query" ->
           { Response(<<"s">>, "stop"), Response(<<"s", "\n">>, "length"),
             Response(<<>>, "stop") }
      [] kind = "micro" ->
           { Response(<<"s">>, "stop") }
      [] kind = "summarize" ->
           { Response(<<"s">>, "stop"), Response(<<"A", "I", ":">>, "stop"),
             Response(<<"A", "I", ":", " ", "s">>, "stop") }

\* ------------------------------------------------------------------- state
NoEvent ==
    [op |-> "none", outcome |-> "none", stage |-> "none", text |-> <<>>,
     sent |-> <<>>, maybeStarted |-> FALSE, turns |-> <<>>, live |-> FALSE,
     refused |-> <<>>]

Event(op, outcome, stage, text, sent, maybeStarted) ==
    [op |-> op, outcome |-> outcome, stage |-> stage, text |-> text,
     sent |-> sent, maybeStarted |-> maybeStarted, turns |-> <<>>, live |-> FALSE,
     refused |-> <<>>]

\* A request handed to the backend, or refused by the budget adjustment: the
\* body, and what createBody had put in max_tokens before the adjustment
Sent(by, built, body) == [by |-> by, built |-> built, body |-> body]

\* A call in flight and what its continuation holds: the record of chat, the
\* turn of a micro-summary, the array summarize was given (positions in
\* this.history, or this.history itself: live).
Call(kind, input, turn, turns, live) ==
    [kind |-> kind, input |-> input, turn |-> turn, turns |-> turns, live |-> live,
     covers |-> {}]

Init ==
    /\ conf = InitialConf
    /\ history = <<>>
    /\ summary = <<>>
    /\ inflight = EmptyBag
    /\ ops = 0
    /\ ev = NoEvent
    /\ delivered = NoResponse
    /\ covered = {}

\* The calls in flight are a bag: responses arrive in any order.
Without(call) == inflight (-) SetToBag({call})
\* What the summary a summarize call asks for is made from: the turns
\* rendered into its prompt, and with them the turns of the running summary
\* when the prompt asks to update it
Covers(call) ==
    {call.turns[k] : k \in 1..Len(call.turns)}
    \cup (IF summary # <<>> THEN covered ELSE {})

Calls(seq) ==
    IF seq = <<>> THEN EmptyBag
    ELSE SetToBag({[seq[1] EXCEPT !.covers = Covers(seq[1])]})

MadeCall(by, body, adj) == [ok |-> adj.ok, sent |-> Sent(by, body, adj.body)]

\* The part of #makeApiCall up to the backend call, for a body createBody
\* returned and the caller completed: whether the call is made, and with
\* which body
makeApiCall(by, body) == MadeCall(by, body, adjustMaxExpectedResponseTokens(body))

\* query after createBody returned cb, and after #makeApiCall returned call
QuerySent(c, call) == [thrown |-> FALSE, ok |-> call.ok, sent |-> call.sent, conf |-> c]

QueryBuilt(by, input, cb) ==
    IF ~cb.ok
    THEN [thrown |-> TRUE, ok |-> FALSE, sent |-> Sent(by, EmptyObject, EmptyObject),
          conf |-> cb.conf]
    ELSE QuerySent(cb.conf,
                   makeApiCall(by, ObjectAssign(cb.body, [k \in {"prompt"} |-> input])))

\* query(input, tempConf) up to the backend call, on the configuration c:
\* whether it throws before #makeApiCall (thrown), whether the call is made
\* (ok), the request and the configuration left
query(by, input, tempConf, c) ==
    IF input = <<>>
    THEN [thrown |-> TRUE, ok |-> FALSE, sent |-> Sent(by, EmptyObject, EmptyObject),
          conf |-> c]
    ELSE QueryBuilt(by, input, createBody(getModelName(tempConf, "query"), tempConf, c))

\* The prompt summarize builds from the running summary and the turns
SummarizePrompt(turns, hist, sum) ==
    (IF sum # <<>>
     THEN <<"TplMergeA">> \o sum \o <<"TplMergeB">>
     ELSE <<"TplFresh">>)
    \o Join(formatHistory("query", turns, hist), <<",">>)

AllTurns(hist) == [i \in 1..Len(hist) |-> i]

\* summarize after query returned q
SummarizeQueried(given, turns, q) ==
    [thrown |-> q.thrown, ok |-> q.ok,
     sent |-> IF q.ok THEN <<q.sent>> ELSE <<>>,
     calls |-> IF q.ok THEN <<Call("summarize", <<>>, 0, turns, ~given)>> ELSE <<>>,
     conf |-> q.conf]

\* summarize once its array and token count are settled: tokens || the count
SummarizeTurns(given, turns, tokens, hist, sum, c) ==
    IF tokens = 0 /\ ~countHistoryTokens(turns, hist).ok
    THEN [thrown |-> TRUE, ok |-> FALSE, sent |-> <<>>, calls |-> <<>>, conf |-> c]
    ELSE SummarizeQueried(given, turns,
             query("summarize", SummarizePrompt(turns, hist, sum),
                   TempConf([k \in {"max_tokens"} |-> Val(summarize_token_target)]), c))

\* summarize(history, tokens) up to the backend call.  given = FALSE is the
\* call without arguments, which takes this.history.  thrown: the returned
\* promise is rejected before any backend call.
summarize(given, turnsArg, tokensArg, hist, sum, c) ==
    SummarizeTurns(given, IF given THEN turnsArg ELSE AllTurns(hist),
                   IF given THEN tokensArg ELSE 0, hist, sum, c)

NothingStarted(c) ==
    [thrown |-> FALSE, invoked |-> FALSE, sent |-> <<>>, calls |-> <<>>,
     conf |-> c, returns |-> "undefined"]

MaybeInvoked(s) ==
    [thrown |-> FALSE, invoked |-> TRUE, sent |-> s.sent, calls |-> s.calls,
     conf |-> s.conf, returns |-> "undefined"]

\* The test of #summarizeConversationIfCutoffExceeded on the counted tokens
CutoffExceeded(force, tokens) == force \/ tokens > summarize_token_cutoff

MaybeCounted(force, unsummorized, counted, hist, sum, c) ==
    IF ~counted.ok THEN [NothingStarted(c) EXCEPT !.thrown = TRUE]
    ELSE IF ~CutoffExceeded(force, counted.total) THEN NothingStarted(c)
    ELSE MaybeInvoked(summarize(TRUE, unsummorized, counted.total, hist, sum, c))

MaybeSummarize(force, unsummorized, hist, sum, c) ==
    IF Len(unsummorized) = 0
    THEN NothingStarted(c)
    ELSE MaybeCounted(force, unsummorized, countHistoryTokens(unsummorized, hist),
                      hist, sum, c)

\* #summarizeConversationIfCutoffExceeded(force): thrown when
\* countHistoryTokens throws; invoked when it calls summarize.  The method
\* has no return statement: it returns undefined.
summarizeConversationIfCutoffExceeded(force, hist, sum, c) ==
    MaybeSummarize(force, getUnsummorizedHistory(hist), hist, sum, c)

\* The messages chat renders
ChatMessages(input, hist, sum) ==
    << [role |-> "system", content |-> IF sum # <<>> THEN sum ELSE <<"Persona">>] >>
    \o formatHistory("chat", getUnsummorizedHistory(hist), hist)
    \o << [role |-> "user", content |-> input] >>

\* ----------------------------------------------------------------- actions
\* chat after #makeApiCall issued the request or threw
ChatCalled(input, call) ==
    IF ~call.ok
    THEN /\ ev' = [Event("chat", "rejected", "request", <<>>, <<>>, FALSE)
                     EXCEPT !.refused = <<call.sent>>]
         /\ UNCHANGED inflight
    ELSE /\ ev' = Event("chat", "pending", "sent", <<>>, <<call.sent>>, FALSE)
         /\ inflight' = inflight (+) SetToBag({Call("chat", input, 0, <<>>, FALSE)})

\* chat after createBody returned cb
ChatBuilt(input, cb) ==
    /\ conf' = cb.conf
    /\ IF ~cb.ok
       THEN /\ ev' = Event("chat", "rejected", "build", <<>>, <<>>, FALSE)
            /\ UNCHANGED inflight
       ELSE ChatCalled(input,
                makeApiCall("chat", ObjectAssign(cb.body, [k \in {"messages"} |->
                                        ChatMessages(input, history, summary)])))

\* chat(input, tempConf), up to the backend call
Chat(input, tempConf) ==
    /\ ops < MaxOps
    /\ delivered' = NoResponse
    /\ ops' = ops + 1
    /\ UNCHANGED <<history, summary, covered>>
    /\ IF input = <<>>
       THEN /\ ev' = Event("chat", "rejected", "input", <<>>, <<>>, FALSE)
            /\ UNCHANGED <<conf, inflight>>
       ELSE ChatBuilt(input, createBody(getModelName(tempConf, "chat"), tempConf, conf))

\* Mutant: the turn is appended as already summarized
Record_StartsSummarized(input, output) ==
    [input |-> input, input_tokens |-> countTokens(input), summarized |-> TRUE,
     output |-> output, output_tokens |-> countTokens(output),
     hasSummary |-> FALSE, summary |-> <<>>]

\* The turn chat appends
Record(input, output) ==
    [input |-> input, input_tokens |-> countTokens(input), summarized |-> FALSE,
     output |-> output, output_tokens |-> countTokens(output),
     hasSummary |-> FALSE, summary |-> <<>>]

\* #summarizeSingleInputOutput(input, output), up to the backend call
summarizeSingleInputOutput(input, output, c) ==
    query("micro", <<"TplMicroQ">> \o input \o <<"TplMicroA">> \o output,
          TempConf([k \in {"temperature", "max_tokens"} |->
                        IF k = "temperature" THEN Val(4) ELSE Val(MicroMaxTokens)]), c)

\* Whether chat returns its output after the two triggers: calling .catch on
\* what #summarizeConversationIfCutoffExceeded returned throws when that is
\* undefined.
ChatReturns(micro, maybe) ==
    ~micro.thrown /\ ~maybe.thrown /\ maybe.returns # "undefined"

\* Mutant: the record is pushed before the call's outcome is known
ChatFailed_Appends(call, stage) ==
    /\ ev' = Event("chatDone", "rejected", stage, <<>>, <<>>, FALSE)
    /\ inflight' = Without(call)
    /\ history' = Append(history, Record(call.input, <<>>))
    /\ UNCHANGED <<conf, summary, covered>>

\* chat rejects after the backend call: nothing was recorded
ChatFailed(call, stage) ==
    /\ ev' = Event("chatDone", "rejected", stage, <<>>, <<>>, FALSE)
    /\ inflight' = Without(call)
    /\ UNCHANGED <<conf, history, summary, covered>>

\* chat after both triggers ran (micro: what the micro-summary's query did,
\* maybe: what #summarizeConversationIfCutoffExceeded did)
ChatTriggered(call, output, hist1, micro, maybe) ==
    /\ history' = hist1
    /\ UNCHANGED <<summary, covered>>
    /\ conf' = maybe.conf
    /\ inflight' = Without(call)
          (+) (IF micro.ok
               THEN SetToBag({Call("micro", <<>>, Len(hist1), <<>>, FALSE)})
               ELSE EmptyBag)
          (+) Calls(maybe.calls)
    /\ ev' = Event("chatDone",
                   IF ChatReturns(micro, maybe) THEN "resolved" ELSE "rejected",
                   "trigger", output,
                   (IF micro.ok THEN <<micro.sent>> ELSE <<>>) \o maybe.sent,
                   maybe.invoked)

\* chat after the micro-summary was started
ChatMicroStarted(call, output, hist1, micro) ==
    ChatTriggered(call, output, hist1, micro,
        IF micro.thrown
        THEN [thrown |-> FALSE, invoked |-> FALSE, sent |-> <<>>,
              calls |-> <<>>, conf |-> micro.conf, returns |-> "none"]
        ELSE summarizeConversationIfCutoffExceeded(FALSE, hist1, summary, micro.conf))

\* chat after the turn was appended
ChatRecorded(call, output, hist1) ==
    ChatMicroStarted(call, output, hist1,
                     summarizeSingleInputOutput(call.input, output, conf))

\* Mutant: the turn is put at the front of the history
ChatParsed_Prepends(call, parsed) ==
    IF ~parsed.ok
    THEN ChatFailed(call, "parse")
    ELSE ChatRecorded(call, parsed.output,
                      <<Record(call.input, parsed.output)>> \o history)

\* chat after #makeApiCall parsed the response
ChatParsed(call, parsed) ==
    IF ~parsed.ok
    THEN ChatFailed(call, "parse")
    ELSE ChatRecorded(call, parsed.output,
                      Append(history, Record(call.input, parsed.output)))

\* The continuation of chat after the backend's response
ChatRespond(call, resp) ==
    /\ call.kind = "chat"
    /\ delivered' = resp
    /\ UNCHANGED <<ops>>
    /\ IF resp.error
       THEN ChatFailed(call, "backend")
       ELSE ChatParsed(call, ParseResponse(resp))

QueryStarted(input, q) ==
    /\ conf' = q.conf
    /\ IF q.ok
       THEN /\ inflight' = inflight (+) SetToBag({Call("query", input, 0, <<>>, FALSE)})
            /\ ev' = Event("query", "pending", "sent", <<>>, <<q.sent>>, FALSE)
       ELSE /\ UNCHANGED inflight
            /\ ev' = Event("query", "rejected",
                           IF q.thrown THEN "build" ELSE "request", <<>>, <<>>, FALSE)

\* query(input, tempConf) by the user, up to the backend call
Query(input, tempConf) ==
    /\ ops < MaxOps
    /\ delivered' = NoResponse
    /\ ops' = ops + 1
    /\ UNCHANGED <<history, summary, covered>>
    /\ QueryStarted(input, query("query", input, tempConf, conf))

QueryParsed(parsed) ==
    IF ~parsed.ok
    THEN ev' = Event("queryDone", "rejected", "parse", <<>>, <<>>, FALSE)
    ELSE ev' = Event("queryDone", "resolved", "done", parsed.output, <<>>, FALSE)

\* Mutant: the settled query marks every turn summarized
QueryRespond_Marks(call, resp) ==
    /\ call.kind = "query"
    /\ delivered' = resp
    /\ inflight' = Without(call)
    /\ history' = [j \in 1..Len(history) |-> [history[j] EXCEPT !.summarized = TRUE]]
    /\ UNCHANGED <<conf, summary, covered, ops>>
    /\ ev' = Event("queryDone", "rejected", "backend", <<>>, <<>>, FALSE)

\* The promise of query settles
QueryRespond(call, resp) ==
    /\ call.kind = "query"
    /\ delivered' = resp
    /\ inflight' = Without(call)
    /\ UNCHANGED <<conf, history, summary, covered, ops>>
    /\ IF resp.error
       THEN ev' = Event("queryDone", "rejected", "backend", <<>>, <<>>, FALSE)
       ELSE QueryParsed(ParseResponse(resp))

MicroParsed(t, parsed) ==
    IF ~parsed.ok
    THEN /\ ev' = Event("microDone", "rejected", "parse", <<>>, <<>>, FALSE)
         /\ UNCHANGED history
    ELSE /\ ev' = Event("microDone", "resolved", "done", Trim(parsed.output), <<>>, FALSE)
         /\ history' = [history EXCEPT ![t].hasSummary = TRUE,
                                       ![t].summary = Trim(parsed.output)]

\* The micro-summary of a turn settles: .then(summary => record.summary = summary)
MicroRespond(call, resp) ==
    /\ call.kind = "micro"
    /\ delivered' = resp
    /\ inflight' = Without(call)
    /\ UNCHANGED <<conf, summary, covered, ops>>
    /\ IF resp.error
       THEN /\ ev' = Event("microDone", "rejected", "backend", <<>>, <<>>, FALSE)
            /\ UNCHANGED history
       ELSE MicroParsed(call.turn, ParseResponse(resp))

SummarizeStarted(s) ==
    /\ conf' = s.conf
    /\ inflight' = inflight (+) Calls(s.calls)
    /\ ev' = Event("summarize", IF s.ok THEN "pending" ELSE "rejected",
                   IF s.ok THEN "sent" ELSE IF s.thrown THEN "build" ELSE "request",
                   <<>>, s.sent, FALSE)

\* summarize() by the user (the command line's summarize), up to the backend call
Summarize ==
    /\ ops < MaxOps
    /\ delivered' = NoResponse
    /\ ops' = ops + 1
    /\ UNCHANGED <<history, summary, covered>>
    /\ SummarizeStarted(summarize(FALSE, <<>>, 0, history, summary, conf))

\* The summary text summarize stores: the response without the echoed label
StripLabel(text) ==
    IF StartsWith(text, names.assistant)
    THEN Slice(text, Len(names.assistant) + 1)
    ELSE text

\* history.forEach(obj => obj.summarized = true), for the array summarize holds
MarkSummarized(hist, call) ==
    [j \in 1..Len(hist) |->
        IF call.live \/ \E k \in 1..Len(call.turns) : call.turns[k] = j
        THEN [hist[j] EXCEPT !.summarized = TRUE]
        ELSE hist[j]]

\* Mutant: the turns are marked although the call failed
SummarizeRejected_Marks(call, stage) ==
    /\ ev' = [Event("summarizeDone", "rejected", stage, <<>>, <<>>, FALSE)
                EXCEPT !.turns = call.turns, !.live = call.live]
    /\ history' = MarkSummarized(history, call)
    /\ UNCHANGED <<summary, covered>>

\* The promise of summarize rejects: the .then callback does not run
SummarizeRejected(call, stage) ==
    /\ ev' = [Event("summarizeDone", "rejected", stage, <<>>, <<>>, FALSE)
                EXCEPT !.turns = call.turns, !.live = call.live]
    /\ UNCHANGED <<history, summary, covered>>

\* The .then of summarize, given the text #makeApiCall returned
SummarizeThen(call, text) ==
    /\ ev' = [Event("summarizeDone", "resolved", "done", text, <<>>, FALSE)
                EXCEPT !.turns = call.turns, !.live = call.live]
    /\ summary' = text
    /\ covered' = call.covers
    /\ history' = MarkSummarized(history, call)

SummarizeParsed(call, parsed) ==
    IF ~parsed.ok
    THEN SummarizeRejected(call, "parse")
    ELSE SummarizeThen(call, StripLabel(parsed.output))

\* The continuation of summarize after the backend's response
SummarizeRespond(call, resp) ==
    /\ call.kind = "summarize"
    /\ delivered' = resp
    /\ inflight' = Without(call)
    /\ UNCHANGED <<conf, ops>>
    /\ IF resp.error
       THEN SummarizeRejected(call, "backend")
       ELSE SummarizeParsed(call, ParseResponse(resp))

\* configure(conf) by the user
Configure(in) ==
    /\ ops < MaxOps
    /\ delivered' = NoResponse
    /\ ops' = ops + 1
    /\ conf' = configure(conf, in).conf
    /\ ev' = Event("configure", "none", "none", <<>>, <<>>, FALSE)
    /\ UNCHANGED <<history, summary, covered, inflight>>

Next ==
    \/ \E c \in ChatCalls : Chat(c[1], c[2])
    \/ \E c \in QueryCalls : Query(c[1], c[2])
    \/ Summarize
    \/ \E in \in ConfigureInputs : Configure(in)
    \/ \E call \in BagToSet(inflight) : \E resp \in Responses(call.kind) :
          ChatRespond(call, resp)
    \/ \E call \in BagToSet(inflight) : \E resp \in Responses(call.kind) :
          QueryRespond(call, resp)
    \/ \E call \in BagToSet(inflight) : \E resp \in Responses(call.kind) :
          MicroRespond(call, resp)
    \/ \E call \in BagToSet(inflight) : \E resp \in Responses(call.kind) :
          SummarizeRespond(call, resp)

Spec == Init /\ [][Next]_vars

\* ================================================================== claims
\* What a request handed to the backend says: the tokens #countTokens counts
\* for its rendered prompt, the ceiling of its model, the output tokens
\* createBody asked for and the output tokens sent.
PromptTokens(s) == countTokens(extractContent(s.body).text)
Ceiling(s) == models[s.body["model"][1]].token_limit
HasMaxTokens(s) == "max_tokens" \in DOMAIN s.body
Requested(s) == s.built["max_tokens"][1]
SentMaxTokens(s) == s.body["max_tokens"][1]
SomeTurnSummarized == \E i \in 1..Len(history) : history[i].summarized

\* C1: every request handed to the backend that carries max_tokens has
\* prompt tokens + max_tokens <= the token ceiling of its model, the prompt
\* tokens being what #countTokens counts for the rendered prompt.
C1_BudgetRespected ==
    \A k \in 1..Len(ev.sent) :
        HasMaxTokens(ev.sent[k]) =>
            PromptTokens(ev.sent[k]) + SentMaxTokens(ev.sent[k]) <= Ceiling(ev.sent[k])

\* C1 witness: after a summarization, chat sends a request whose max_tokens
\* had to be cut to fit.
C1_Witness ==
    /\ ev.op = "chat"
    /\ SomeTurnSummarized
    /\ \E k \in 1..Len(ev.sent) :
          /\ HasMaxTokens(ev.sent[k])
          /\ SentMaxTokens(ev.sent[k]) < Requested(ev.sent[k])

\* The clamp as the claim states it, for one request
ClampAsStated(s) ==
    (HasMaxTokens(s) /\ PromptTokens(s) < Ceiling(s)) =>
        /\ SentMaxTokens(s) =
              IF PromptTokens(s) + Requested(s) > Ceiling(s)
              THEN Ceiling(s) - PromptTokens(s)
              ELSE Requested(s)
        /\ \A key \in DOMAIN s.built \ {"max_tokens"} : s.body[key] = s.built[key]
        /\ DOMAIN s.body = DOMAIN s.built

\* C2: with P < C the max_tokens sent is C - P when P + R > C and R
\* otherwise, nothing else of the body differs from what createBody built, and
\* the step that sends a request leaves the persisted max_tokens as it was.
C2_BudgetClamp ==
    [][ev'.sent # <<>> =>
           /\ \A k \in 1..Len(ev'.sent) : ClampAsStated(ev'.sent[k])
           /\ conf'["max_tokens"] = conf["max_tokens"]]_vars

\* C2 witness: a request asking for 4000 output tokens is sent with C - P.
C2_Witness ==
    \E k \in 1..Len(ev.sent) :
        /\ HasMaxTokens(ev.sent[k])
        /\ Requested(ev.sent[k]) = 4000
        /\ PromptTokens(ev.sent[k]) < Ceiling(ev.sent[k])
        /\ SentMaxTokens(ev.sent[k]) = Ceiling(ev.sent[k]) - PromptTokens(ev.sent[k])
        /\ conf["max_tokens"] = Val(DefaultMaxTokens)

\* C3 as stated: no request is handed to the backend with P >= C.
C3_Original ==
    \A k \in 1..Len(ev.sent) : PromptTokens(ev.sent[k]) < Ceiling(ev.sent[k])

\* C3 amended: no request is handed to the backend with P > C; with P = C
\* the request is sent, and a positive max_tokens is sent as 0.
C3_TooLargeRejected ==
    \A k \in 1..Len(ev.sent) :
        /\ PromptTokens(ev.sent[k]) <= Ceiling(ev.sent[k])
        /\ (/\ PromptTokens(ev.sent[k]) = Ceiling(ev.sent[k])
            /\ HasMaxTokens(ev.sent[k])
            /\ Requested(ev.sent[k]) > 0) => SentMaxTokens(ev.sent[k]) = 0

\* C3 witness: chat was refused between createBody and the backend call, and
\* nothing was sent.
C3_Witness ==
    /\ ev.op = "chat"
    /\ ev.outcome = "rejected"
    /\ ev.stage = "request"
    /\ ev.sent = <<>>

\* C4 as stated: when summarize succeeded on the turns it was given, each of
\* them has summarized = true, none of them is among the unsummarized turns,
\* and the running summary is not empty.
C4_Original ==
    (ev.op = "summarizeDone" /\ ev.outcome = "resolved" /\ ev.turns # <<>>) =>
        /\ \A k \in 1..Len(ev.turns) : history[ev.turns[k]].summarized
        /\ \A k \in 1..Len(ev.turns) :
              \A j \in 1..Len(getUnsummorizedHistory(history)) :
                  getUnsummorizedHistory(history)[j] # ev.turns[k]
        /\ summary # <<>>

\* The summarized flags of the turns there were before the step
FlagsKept ==
    /\ Len(history') >= Len(history)
    /\ \A i \in 1..Len(history) : history'[i].summarized = history[i].summarized

\* A step in which a summarize fails: its promise rejects after the backend
\* call, it is refused before the call, or the summarize that
\* #summarizeConversationIfCutoffExceeded invoked made no call.
SummarizeFails ==
    \/ ev'.op = "summarizeDone" /\ ev'.outcome = "rejected"
    \/ ev'.op = "summarize" /\ ev'.outcome = "rejected"
    \/ /\ ev'.op = "chatDone"
       /\ ev'.maybeStarted
       /\ \A k \in 1..Len(ev'.sent) : ev'.sent[k].by # "summarize"

\* C5: a step in which a summarize fails changes no turn's summarized flag
\* and leaves the running summary as it was.
C5_FailureIsolation ==
    [][SummarizeFails => (summary' = summary /\ FlagsKept)]_vars

\* C5 witness: the backend call of a summarize over an unsummarized turn
\* failed while a running summary existed.
C5_Witness ==
    /\ ev.op = "summarizeDone"
    /\ ev.outcome = "rejected"
    /\ ev.turns # <<>>
    /\ \E k \in 1..Len(ev.turns) : ~history[ev.turns[k]].summarized

RECURSIVE TokensOfTurns(_, _)
TokensOfTurns(turns, hist) ==
    IF turns = <<>> THEN 0
    ELSE hist[Head(turns)].input_tokens + hist[Head(turns)].output_tokens
         + TokensOfTurns(Tail(turns), hist)

\* C6 as stated: countHistoryTokens of the unsummarized turns is the sum of
\* input_tokens + output_tokens over those turns, and of no turns it is 0.
C6_Original ==
    /\ countHistoryTokens(getUnsummorizedHistory(history), history).total
          = TokensOfTurns(getUnsummorizedHistory(history), history)
    /\ countHistoryTokens(<<>>, history).total = 0

\* C7 as stated: after chat appended a turn,
\* #summarizeConversationIfCutoffExceeded called summarize exactly when the
\* tokens of the turns with summarized = false exceed the cutoff.
C7_Original ==
    (ev.op = "chatDone" /\ ev.stage = "trigger") =>
        (ev.maybeStarted <=>
            TokensOfTurns(getUnsummorizedHistory(history), history)
                > summarize_token_cutoff)

\* C8 as stated: when the backend call of chat succeeded and its response
\* parsed, the promise of chat resolves with the output.
C8_Original ==
    (ev.op = "chatDone" /\ ev.stage = "trigger") => ev.outcome = "resolved"

\* A step in which chat fails before anything is recorded
ChatFails ==
    /\ ev'.op \in {"chat", "chatDone"}
    /\ ev'.outcome = "rejected"
    /\ ev'.stage \in {"input", "build", "request", "backend", "parse"}

\* C9: a step in which chat fails in input validation, request building, the
\* backend call or response parsing leaves the history and the running
\* summary as they were, and so does the step that issued its backend call.
C9_FailedChatLeavesNoTrace ==
    [][(ChatFails \/ ev'.op = "chat") =>
           (history' = history /\ summary' = summary)]_vars

\* C9 witness: a chat call failed after its backend call, in a conversation
\* that has a turn.
C9_Witness ==
    /\ ev.op = "chatDone"
    /\ ev.outcome = "rejected"
    /\ ev.stage \in {"backend", "parse"}
    /\ Len(history) >= 1

\* C10 as stated: a step of chat or query in which createBody returned a body
\* leaves the persisted configuration as it was.
C10_Original ==
    [][(ev'.op \in {"chat", "query"} /\ ev'.stage \in {"sent", "request"}) =>
           conf' = conf]_vars

\* The text #makeApiCall returns for a response text and a finish reason, as
\* the claim states it and with the surrounding whitespace removed
Marker(resp) == IF resp.finish_reason # "stop" THEN <<"Warn">> ELSE <<>>
GotResponse == ev.op \in {"chatDone", "queryDone"} /\ ~delivered.error

Issued(kind) ==
    {c \in BagToSet(inflight') :
        c.kind = kind /\ CopiesIn(c, inflight') > CopiesIn(c, inflight)}

\* The two messages of turn i, and how often a message m is due in a prompt:
\* once for each turn with summarized = false that it is the input or the
\* output of
TurnMessage(i, role) ==
    [role |-> role,
     content |-> IF role = "user" THEN history[i].input ELSE history[i].output]

Due(m) ==
    Cardinality({t \in (1..Len(history)) \X {"user", "assistant"} :
                    ~history[t[1]].summarized /\ TurnMessage(t[1], t[2]) = m})

Occurs(msgs, m) == Cardinality({k \in 2..(Len(msgs) - 1) : msgs[k] = m})

PromptAsStated(msgs) ==
    /\ Len(msgs) = 2 + 2 * Cardinality({i \in 1..Len(history) : ~history[i].summarized})
    /\ msgs[1] = [role |-> "system",
                  content |-> IF summary # <<>> THEN summary ELSE <<"Persona">>]
    /\ \A k \in 2..(Len(msgs) - 1) : Occurs(msgs, msgs[k]) = Due(msgs[k])
    /\ \E c \in Issued("chat") :
          msgs[Len(msgs)] = [role |-> "user", content |-> c.input]
    /\ history = <<>> => Len(msgs) = 2

\* C12: the messages of a request chat hands to the backend are one system
\* message (the running summary when non-empty, otherwise the persona), then
\* the input and the output of each turn with summarized = false and nothing
\* of a summarized turn, then the user's input last; with an empty history
\* they are the system message and the user message.
C12_PromptComposition ==
    [][(ev'.op = "chat" /\ ev'.sent # <<>>) =>
           PromptAsStated(ev'.sent[1].body["messages"])]_vars

\* C12 witness: chat sent a request of two messages, the running summary
\* and the user's input, while the history held a summarized turn.
C12_Witness ==
    /\ ev.op = "chat"
    /\ ev.sent # <<>>
    /\ summary # <<>>
    /\ \E i \in 1..Len(history) : history[i].summarized
    /\ Len(ev.sent[1].body["messages"]) = 2
    /\ ev.sent[1].body["messages"][1].content = summary

\* The turns with summarized = false in the order they were appended, and the
\* rendering of turns in the order given, the input of each before its output
Chronological == Reverse(getUnsummorizedHistory(history))
InOrder(format, turns) == FormatPairs(format, turns, history)
SummaryHead ==
    IF summary # <<>> THEN <<"TplMergeA">> \o summary \o <<"TplMergeB">>
    ELSE <<"TplFresh">>

\* C13 as stated: in every request rendered from the history, by chat, by the
\* summarize that #summarizeConversationIfCutoffExceeded calls and by
\* summarize() over the whole history, the turns come in the order they were
\* appended and the input of each turn comes before its output.
C13_Original ==
    \A k \in 1..Len(ev.sent) :
        /\ ev.sent[k].by = "chat" =>
              SubSeq(ev.sent[k].body["messages"], 2,
                     Len(ev.sent[k].body["messages"]) - 1)
                = InOrder("chat", Chronological)
        /\ ev.sent[k].by = "summarize" =>
              ev.sent[k].body["prompt"]
                = SummaryHead \o Join(InOrder("query",
                                          IF ev.op = "summarize"
                                          THEN AllTurns(history)
                                          ELSE Chronological), <<",">>)

\* C14: a step of query, the one that issues its request or refuses it and
\* the one in which its promise settles, appends no turn, changes no field of
\* a turn and leaves the running summary as it was; the request it issues has
\* no messages, and its prompt is the input query was given.
C14_QueryStateless ==
    [][ev'.op \in {"query", "queryDone"} =>
           /\ history' = history
           /\ summary' = summary
           /\ ev'.sent # <<>> =>
                 /\ "messages" \notin DOMAIN ev'.sent[1].body
                 /\ \E c \in Issued("query") : ev'.sent[1].body["prompt"] = c.input]_vars

\* C14 witness: a query settled in a conversation that holds a turn not yet
\* summarized.
C14_Witness ==
    /\ ev.op = "queryDone"
    /\ \E i \in 1..Len(history) : ~history[i].summarized

\* The calls of a kind whose response the step receives
Completed(kind) ==
    {c \in BagToSet(inflight) :
        c.kind = kind /\ CopiesIn(c, inflight') < CopiesIn(c, inflight)}

\* The step in which a chat call's backend response arrived and was parsed
ChatCompletes == ev'.op = "chatDone" /\ ev'.stage = "trigger"

\* C15: the step in which a chat call's response arrives and parses puts
\* exactly one turn, that call's input and output, after every turn already
\* in the history, so the turns of two calls in flight together stand in the
\* order of their responses; no other step changes the number of turns; and
\* no step changes which input and output stand at a position.
C15_CompletionOrder ==
    [][/\ Len(history') = Len(history) + (IF ChatCompletes THEN 1 ELSE 0)
       /\ \A i \in 1..Len(history) :
             /\ history'[i].input = history[i].input
             /\ history'[i].output = history[i].output
       /\ ChatCompletes =>
             /\ history'[Len(history')].output = ev'.text
             /\ \E c \in Completed("chat") :
                   history'[Len(history')].input = c.input]_vars

\* C15 witness: two chat calls have completed and their turns are in the
\* history while another call, with another input, still awaits its response.
C15_Witness ==
    /\ ev.op = "chatDone"
    /\ ev.stage = "trigger"
    /\ Len(history) = 2
    /\ \E c \in BagToSet(inflight) :
          c.kind = "chat" /\ c.input # history[2].input

\* The conversation summarizations in flight that
\* #summarizeConversationIfCutoffExceeded started
Summarizing == {c \in BagToSet(inflight) : c.kind = "summarize" /\ ~c.live}

\* C16 as stated: #summarizeConversationIfCutoffExceeded starts no
\* summarization while one it started earlier has not settled, and no turn
\* is in the arrays of two summarizations in flight.
C16_Original ==
    [][(ev'.op = "chatDone" /\ \E k \in 1..Len(ev'.sent) : ev'.sent[k].by = "summarize") =>
           /\ Summarizing = {}
           /\ \A c \in Summarizing : \A d \in Issued("summarize") :
                 \A i \in 1..Len(c.turns) : \A j \in 1..Len(d.turns) :
                     c.turns[i] # d.turns[j]]_vars

\* The texts whose token count the state shows: the prompts of the requests
\* the step sent or refused, and the inputs and outputs of the turns
Counted ==
    {extractContent(ev.sent[k].body).text : k \in 1..Len(ev.sent)}
    \cup {extractContent(ev.refused[k].body).text : k \in 1..Len(ev.refused)}
    \cup {history[i].input : i \in 1..Len(history)}
    \cup {history[i].output : i \in 1..Len(history)}

\* The encoder's count is not usable: not positive, or above the largest
\* token ceiling
OracleFails(text) == encode(text) <= 0 \/ encode(text) > MaxTokenLimit

CeilDiv(n, d) == (n + d - 1) \div d

\* C17 as stated: for a text whose encoder count is not positive or exceeds
\* the largest token ceiling, #countTokens returns ceil(length / 4).
C17_Original ==
    \A text \in Counted :
        OracleFails(text) => countTokens(text) = CeilDiv(StrLength(text), 4)

\* C18 as stated: the backend call of a summarization that
\* #summarizeConversationIfCutoffExceeded started is issued in a step before
\* which the chat call that appended the turn had settled, and that chat call
\* resolved: no step both receives the response of a chat call and issues
\* the summarization's request.
C18_Original ==
    [][(\E d \in Issued("summarize") : ~d.live) =>
           /\ Completed("chat") = {}
           /\ ev'.op # "chatDone"]_vars

\* C19 as stated: the step in which a summarize succeeds sets summarized on
\* exactly the turns rendered into its prompt when it was called, whether
\* #summarizeConversationIfCutoffExceeded or summarize() without arguments
\* started it; every other turn keeps its flag.
C19_Original ==
    [][(ev'.op = "summarizeDone" /\ ev'.outcome = "resolved") =>
           /\ Len(history') = Len(history)
           /\ \A i \in 1..Len(history) :
                 history'[i].summarized
                   = (history[i].summarized \/ \E k \in 1..Len(ev'.turns) : ev'.turns[k] = i)]_vars

\* C20 as stated: a step of chat or query in which building the request
\* fails leaves the persisted configuration as it was before the call.
C20_Original ==
    [][(ev'.op \in {"chat", "query"} /\ ev'.stage = "build") => conf' = conf]_vars

\* C21 as stated: every turn with summarized = true is among the turns the
\* running summary was made from, a summary being made from the turns
\* rendered into its prompt and the turns of the summary it was asked to
\* update.
C21_Original ==
    \A i \in 1..Len(history) : history[i].summarized => i \in covered

\* C22: no step removes or moves a turn or changes the input, the output or
\* the token counts of a turn in the history; a turn is appended with
\* summarized = false, and no step sets a summarized flag back to false.
C22_TurnsImmutable ==
    [][/\ Len(history') >= Len(history)
       /\ \A i \in 1..Len(history) :
             /\ history'[i].input = history[i].input
             /\ history'[i].output = history[i].output
             /\ history'[i].input_tokens = history[i].input_tokens
             /\ history'[i].output_tokens = history[i].output_tokens
             /\ history[i].summarized => history'[i].summarized
       /\ \A i \in (Len(history) + 1)..Len(history') :
             history'[i].summarized = FALSE]_vars

\* C22 witness: a summarization has just marked a turn that carries its
\* micro-summary, while a chat call is still in flight.
C22_Witness ==
    /\ ev.op = "summarizeDone"
    /\ ev.outcome = "resolved"
    /\ \E i \in 1..Len(history) : history[i].summarized /\ history[i].hasSummary
    /\ \E c \in BagToSet(inflight) : c.kind = "chat"

====
